---- MODULE Spec2Model ----
(***************************************************************************)
(* Model of src/Deep_research.py: the bounded research-fetch pipeline      *)
(* (deep_research) and the two-provider LLM call with fallback             *)
(* (call_llm, generate_summary).                                           *)
(*                                                                         *)
(* The network is the environment.  What it will answer is fixed in the    *)
(* initial state (searchResp, responses, openrouterResp, groqResp), so     *)
(* that two runs "over the same fetch outcomes" can be compared; how long  *)
(* each call takes is chosen when the call returns.                        *)
(***************************************************************************)
EXTENDS Integers, Sequences, FiniteSets, TLC

(* ---------------------------- bounds ----------------------------------- *)
\* max_urls ranges over 1..MaxN (the slider allows 1..20)
MaxN == 2
\* the search response lists 0..MaxCands results
MaxCands == 2
\* a content response holds 0..MaxPages page ids
MaxPages == 2
\* the Start Research button is pressed at most MaxRuns times with a topic
MaxRuns == 2
\* time_limit, in clock units (the slider allows 30..300 s); the clock is
\* read as 0..TimeLimit + 1, the last value standing for any later time
TimeLimit == 1

VARIABLES
    pc,               \* position of deep_research
    max_urls,         \* argument max_urls
    time_limit,       \* argument time_limit
    now,              \* time.time() - start_time, saturated at time_limit + 1
    searchResp,       \* what the search endpoint answers
    responses,        \* responses[i]: what the content endpoint answers for title i,
                      \* for the titles the loop can reach
    search_results,   \* search_data["query"]["search"]: the titles, in order
    idx,              \* position of the for loop in search_results[:max_urls]
    sources,          \* results["sources"]
    content_summary,  \* content_summary
    counter,          \* counter
    outcome,          \* the returned dict
    calls,            \* the HTTP calls issued, in order
    inflight,         \* number of HTTP requests issued and not yet returned
    brokeAt,          \* loop position at which the deadline check broke the loop, 0 if it did not
    llm_pc,           \* position of generate_summary / call_llm
    entry,            \* the function that was called: "generate_summary" or "call_llm"
    openrouter_api_key, \* st.session_state.openrouter_api_key ("" when not set)
    groq_api_key,     \* st.session_state.groq_api_key ("" when not set)
    openrouterResp,   \* what the OpenRouter endpoint answers
    groqResp,         \* what the groq client does
    attempts,         \* the provider calls issued, in order
    warnings,         \* number of st.warning calls of call_llm
    llm_result,       \* how call_llm ended
    gs_result,        \* how generate_summary ended
    ui_pc,            \* position of the page script: "idle" between button presses
    topic,            \* the text input, as read by the last press of Start Research
    notice,           \* what the last button press left on the page
    run,              \* number of deep_research calls made by the button handler
    research_results  \* st.session_state.research_results

pvars == <<pc, max_urls, time_limit, now, searchResp, responses, search_results,
           idx, sources, content_summary, counter, outcome, calls, inflight,
           brokeAt>>
lvars == <<llm_pc, entry, openrouter_api_key, groq_api_key, openrouterResp,
           groqResp, attempts, warnings, llm_result, gs_result>>
uvars == <<ui_pc, topic, notice, run, research_results>>
vars == <<pvars, lvars, uvars>>

Min(a, b) == IF a < b THEN a ELSE b

(* ------------------------- the environment ----------------------------- *)
\* A page of query.pages: it has no "extract" key, an empty extract, or text.
PageKinds == {"noextract", "empty", "text"}

RECURSIVE SeqsUpTo(_, _)
SeqsUpTo(S, n) ==
    IF n = 0 THEN {<<>>}
    ELSE LET shorter == SeqsUpTo(S, n - 1)
         IN  shorter \cup {Append(s, x) : s \in {t \in shorter : Len(t) = n - 1}, x \in S}

\* The content call raises (transport error, body that is not JSON or not a
\* mapping), or its body lacks query.pages, or it maps page ids to pages.
FetchResponses ==
    {[kind |-> "raise", pages |-> <<>>], [kind |-> "nopages", pages |-> <<>>]}
    \cup {[kind |-> "pages", pages |-> p] : p \in SeqsUpTo(PageKinds, MaxPages)}

\* The search call raises, or its body lacks query.search, or it lists n results.
\* The elements of query.search are taken to be JSON objects with a title,
\* as the MediaWiki API returns them; result i has title i.
SearchResponses ==
    {[kind |-> "raise", n |-> 0], [kind |-> "noquery", n |-> 0]}
    \cup {[kind |-> "results", n |-> n] : n \in 0..MaxCands}

\* st.session_state.research_results = None.  The field run of a slot value
\* names the deep_research call that produced it (0: none), to tell the
\* results of different calls apart.
None == [query |-> "", sources |-> <<>>, summary |-> <<>>, run |-> 0]

NoOutcome == [success |-> FALSE, error |-> "none"]
Failure(reason) == [success |-> FALSE, error |-> reason]
Success == [success |-> TRUE, error |-> ""]

(* --------------------------- deep_research ----------------------------- *)
\* Mutant of Sliced: the slice is missing, the loop runs over all results.
Unsliced(results, n) == results

\* search_results[:max_urls]
Sliced(results, n) == SubSeq(results, 1, Min(Len(results), n))

\* Position of the first page that has an "extract" key, 0 when there is none.
RECURSIVE FirstExtract(_, _)
FirstExtract(pages, j) ==
    IF j > Len(pages) THEN 0
    ELSE IF pages[j] # "noextract" THEN j
    ELSE FirstExtract(pages, j + 1)

\* Does the try block of one iteration append a source for this response?
Extracted(resp) == resp.kind = "pages" /\ FirstExtract(resp.pages, 1) # 0

Url(title) == <<"https://en.wikipedia.org/wiki/", title>>

\* page["extract"][:1200] of the page that is kept: the page it came from and
\* whether it is the empty string.
Snippet(resp) ==
    LET j == FirstExtract(resp.pages, 1)
    IN  [page |-> j, empty |-> (resp.pages[j] = "empty")]

SourceRecord(title, resp) == [title |-> title, url |-> Url(title), snippet |-> Snippet(resp)]

\* Mutant of AppendSource: the record is inserted at the front.
PrependSource(srcs, title, resp) ==
    IF Extracted(resp) THEN <<SourceRecord(title, resp)>> \o srcs ELSE srcs

\* results["sources"] after the try block of one iteration
AppendSource(srcs, title, resp) ==
    IF Extracted(resp) THEN Append(srcs, SourceRecord(title, resp)) ELSE srcs

\* Mutant of AppendBlock: the block is appended whether or not an extract was found.
AppendBlockAlways(blocks, n, title, resp) ==
    Append(blocks, [ordinal |-> n, title |-> title,
                    snippet |-> [page |-> 0, empty |-> TRUE], url |-> Url(title)])

\* Mutant of AppendBlock: the block is numbered by the position of the result
\* in the search list instead of by counter.
AppendBlockByPosition(blocks, n, title, resp) ==
    IF Extracted(resp)
    THEN Append(blocks, [ordinal |-> title, title |-> title,
                         snippet |-> Snippet(resp), url |-> Url(title)])
    ELSE blocks

\* content_summary after the try block of one iteration
AppendBlock(blocks, n, title, resp) ==
    IF Extracted(resp)
    THEN Append(blocks, [ordinal |-> n, title |-> title,
                         snippet |-> Snippet(resp), url |-> Url(title)])
    ELSE blocks

\* Mutant of SearchError: the check for an empty result list is missing.
SearchErrorNoEmptyCheck(resp) ==
    CASE resp.kind = "raise" -> "Research failed"
      [] resp.kind = "noquery" -> "No search results found"
      [] OTHER -> ""

\* The error the search step returns with, "" when the loop is entered.
SearchError(resp) ==
    CASE resp.kind = "raise" -> "Research failed"
      [] resp.kind = "noquery" -> "No search results found"
      [] resp.kind = "results" /\ resp.n = 0 -> "No results found"
      [] OTHER -> ""

\* Mutant of AfterFetch: an exception of the content call leaves the loop.
AfterFetchAbort(resp) == IF resp.kind = "raise" THEN "done" ELSE "loop"

\* Where control goes after the try block of one iteration: the except
\* clause swallows the exception and continues with the next result.
AfterFetch(resp) == "loop"

\* Mutant of Finish: the check for an empty content_summary is missing.
FinishAlways(blocks) == Success

\* The end of the function, once the loop is left.
Finish(blocks) ==
    IF blocks = <<>> THEN Failure("Could not retrieve any content") ELSE Success

\* Mutant of Expired: the loop has no deadline check.
ExpiredNever(t, limit) == FALSE

\* The deadline check of the loop.
Expired(t, limit) == t > limit

\* Any later clock reading, saturated just past the deadline.
Later(t, limit) == t..(limit + 1)

\* The sources of the run that has no deadline check, over the same results
\* and the same responses.
RECURSIVE FreeRunFrom(_, _)
FreeRunFrom(i, srcs) ==
    IF i > Len(Sliced(search_results, max_urls)) THEN srcs
    ELSE FreeRunFrom(i + 1, AppendSource(srcs, search_results[i], responses[search_results[i]]))

FreeRun == FreeRunFrom(1, <<>>)

Init ==
    /\ pc = "start"
    /\ max_urls \in 1..MaxN
    /\ time_limit = TimeLimit
    /\ now = 0
    /\ searchResp \in SearchResponses
    /\ responses \in [1..Min(searchResp.n, max_urls) -> FetchResponses]
    /\ search_results = <<>>
    /\ idx = 0
    /\ sources = <<>>
    /\ content_summary = <<>>
    /\ counter = 1
    /\ outcome = NoOutcome
    /\ calls = <<>>
    /\ inflight = 0
    /\ brokeAt = 0
    /\ llm_pc = "idle"
    /\ entry = "none"
    /\ openrouter_api_key = ""
    /\ groq_api_key = ""
    /\ openrouterResp = "none"
    /\ groqResp = "none"
    /\ attempts = <<>>
    /\ warnings = 0
    /\ llm_result = [kind |-> "none", value |-> "none"]
    /\ gs_result = [kind |-> "none", value |-> "none"]
    /\ ui_pc = "handler"
    /\ topic = "topic"
    /\ notice = "none"
    /\ run = 1
    /\ research_results = None

\* start_time is taken and the search request is issued.
StartSearch ==
    /\ pc = "start"
    /\ pc' = "searching"
    /\ calls' = Append(calls, [call |-> "search", title |-> 0])
    /\ inflight' = inflight + 1
    /\ UNCHANGED <<max_urls, time_limit, now, searchResp, responses, search_results,
                   idx, sources, content_summary, counter, outcome, brokeAt>>
    /\ UNCHANGED lvars
    /\ UNCHANGED uvars

\* The search call returns; the body is inspected.
SearchReturn ==
    /\ pc = "searching"
    /\ \E t \in Later(now, time_limit) : now' = t
    /\ inflight' = inflight - 1
    /\ IF SearchError(searchResp) # ""
       THEN /\ pc' = "done"
            /\ outcome' = Failure(SearchError(searchResp))
            /\ UNCHANGED <<search_results, idx>>
       ELSE /\ pc' = "loop"
            /\ search_results' = [i \in 1..searchResp.n |-> i]
            /\ idx' = 1
            /\ UNCHANGED outcome
    /\ UNCHANGED <<max_urls, time_limit, searchResp, responses, sources,
                   content_summary, counter, calls, brokeAt>>
    /\ UNCHANGED lvars
    /\ UNCHANGED uvars

\* The loop has run through search_results[:max_urls].
LoopExhausted ==
    /\ pc = "loop"
    /\ idx > Len(Sliced(search_results, max_urls))
    /\ pc' = "done"
    /\ outcome' = Finish(content_summary)
    /\ UNCHANGED <<max_urls, time_limit, now, searchResp, responses, search_results,
                   idx, sources, content_summary, counter, calls, inflight, brokeAt>>
    /\ UNCHANGED lvars
    /\ UNCHANGED uvars

\* The deadline check at the head of an iteration breaks the loop.
LoopBreak ==
    /\ pc = "loop"
    /\ idx <= Len(Sliced(search_results, max_urls))
    /\ Expired(now, time_limit)
    /\ pc' = "done"
    /\ brokeAt' = idx
    /\ outcome' = Finish(content_summary)
    /\ UNCHANGED <<max_urls, time_limit, now, searchResp, responses, search_results,
                   idx, sources, content_summary, counter, calls, inflight>>
    /\ UNCHANGED lvars
    /\ UNCHANGED uvars

\* The deadline check passes and the content request for the title is issued.
FetchStart ==
    /\ pc = "loop"
    /\ idx <= Len(Sliced(search_results, max_urls))
    /\ ~Expired(now, time_limit)
    /\ pc' = "fetching"
    /\ calls' = Append(calls, [call |-> "content", title |-> search_results[idx]])
    /\ inflight' = inflight + 1
    /\ UNCHANGED <<max_urls, time_limit, now, searchResp, responses, search_results,
                   idx, sources, content_summary, counter, outcome, brokeAt>>
    /\ UNCHANGED lvars
    /\ UNCHANGED uvars

\* The content call returns or raises; the rest of the try block runs.
FetchReturn ==
    /\ pc = "fetching"
    /\ \E t \in Later(now, time_limit) : now' = t
    /\ inflight' = inflight - 1
    /\ LET title == search_results[idx]
           resp == responses[title]
       IN  /\ sources' = AppendSource(sources, title, resp)
           /\ content_summary' = AppendBlock(content_summary, counter, title, resp)
           /\ counter' = IF Extracted(resp) THEN counter + 1 ELSE counter
    /\ idx' = idx + 1
    /\ pc' = AfterFetch(responses[search_results[idx]])
    /\ UNCHANGED <<max_urls, time_limit, searchResp, responses, search_results,
                   outcome, calls, brokeAt>>
    /\ UNCHANGED lvars
    /\ UNCHANGED uvars

Next ==
    \/ StartSearch
    \/ SearchReturn
    \/ LoopExhausted
    \/ LoopBreak
    \/ FetchStart
    \/ FetchReturn

Spec == Init /\ [][Next]_vars


(* ---------------------- call_llm, generate_summary --------------------- *)
\* The OpenRouter call returns a body holding choices[0].message.content, or
\* raise_for_status raises, or the request raises, or the body is malformed.
OpenRouterResponses == {"ok", "http_error", "exception", "bad_body"}

\* The groq client returns a message with content, returns a message without a
\* content attribute, raises, or the groq module cannot be imported.
GroqResponses == {"ok", "no_content", "exception", "import_error"}

NoProviderMsg == "No LLM provider available. Set OpenRouter or Groq key in the sidebar."
GroqFailedMsg == "Groq call failed"
UnavailableMsg == "AI summary unavailable - set API key in configuration"

Return(v) == [kind |-> "return", value |-> v]
Raise(msg) == [kind |-> "raise", value |-> msg]
NoResult == [kind |-> "none", value |-> "none"]

\* Mutant of PrimaryReturns: the return of the OpenRouter branch is missing.
PrimaryReturnsNever(resp) == FALSE

\* Does the try block of the OpenRouter branch reach its return?
PrimaryReturns(resp) == resp = "ok"

\* What the groq branch ends with.
GroqResult(resp) ==
    CASE resp = "ok" -> Return("groq content")
      [] resp = "no_content" -> Return("str(resp)")
      [] OTHER -> Raise(GroqFailedMsg)

\* Mutant of Summarized: generate_summary has no try/except around call_llm.
SummarizedUncaught(res) == res

\* What generate_summary makes of the way call_llm ended.
Summarized(res) ==
    IF res.kind = "raise" THEN Return(<<"Summary generation failed: ", res.value>>) ELSE res

\* The first line of generate_summary: is any key set?
AnyKey == openrouter_api_key # "" \/ groq_api_key # ""

\* Is call_llm entered?
Entered == entry = "call_llm" \/ (entry = "generate_summary" /\ AnyKey)

\* call_llm ends with res; generate_summary, when it is the caller, ends too.
EndCall(res) ==
    /\ llm_pc' = "done"
    /\ llm_result' = res
    /\ gs_result' = IF entry = "generate_summary" THEN Summarized(res) ELSE gs_result

InitLLM ==
    /\ pc = "off"
    /\ max_urls = 1
    /\ time_limit = TimeLimit
    /\ now = 0
    /\ searchResp = [kind |-> "raise", n |-> 0]
    /\ responses = <<>>
    /\ search_results = <<>>
    /\ idx = 0
    /\ sources = <<>>
    /\ content_summary = <<>>
    /\ counter = 1
    /\ outcome = NoOutcome
    /\ calls = <<>>
    /\ inflight = 0
    /\ brokeAt = 0
    /\ llm_pc = "entry"
    /\ entry \in {"generate_summary", "call_llm"}
    /\ openrouter_api_key \in {"", "key"}
    /\ groq_api_key \in {"", "key"}
    /\ openrouterResp \in OpenRouterResponses
    /\ groqResp \in GroqResponses
    /\ attempts = <<>>
    /\ warnings = 0
    /\ llm_result = NoResult
    /\ gs_result = NoResult
    /\ ui_pc = "off"
    /\ topic = "topic"
    /\ notice = "none"
    /\ run = 0
    /\ research_results = None

\* generate_summary returns at once: no key is set.
SummaryUnavailable ==
    /\ llm_pc = "entry"
    /\ entry = "generate_summary"
    /\ ~AnyKey
    /\ llm_pc' = "done"
    /\ gs_result' = Return(UnavailableMsg)
    /\ UNCHANGED <<entry, openrouter_api_key, groq_api_key, openrouterResp, groqResp,
                   attempts, warnings, llm_result>>
    /\ UNCHANGED pvars
    /\ UNCHANGED uvars

\* call_llm: the OpenRouter key is set, the request is posted.
PrimaryCall ==
    /\ llm_pc = "entry"
    /\ Entered
    /\ openrouter_api_key # ""
    /\ llm_pc' = "openrouter"
    /\ attempts' = Append(attempts, "openrouter")
    /\ UNCHANGED <<entry, openrouter_api_key, groq_api_key, openrouterResp, groqResp,
                   warnings, llm_result, gs_result>>
    /\ UNCHANGED pvars
    /\ UNCHANGED uvars

\* call_llm: the OpenRouter key is not set, the branch is skipped.
PrimarySkip ==
    /\ llm_pc = "entry"
    /\ Entered
    /\ openrouter_api_key = ""
    /\ llm_pc' = "fallback"
    /\ UNCHANGED <<entry, openrouter_api_key, groq_api_key, openrouterResp, groqResp,
                   attempts, warnings, llm_result, gs_result>>
    /\ UNCHANGED pvars
    /\ UNCHANGED uvars

\* The OpenRouter request ends: its content is returned, or the exception is
\* reported with st.warning and control falls through.
PrimaryReturn ==
    /\ llm_pc = "openrouter"
    /\ IF PrimaryReturns(openrouterResp)
       THEN /\ EndCall(Return("openrouter content"))
            /\ UNCHANGED warnings
       ELSE /\ llm_pc' = "fallback"
            /\ warnings' = warnings + 1
            /\ UNCHANGED <<llm_result, gs_result>>
    /\ UNCHANGED <<entry, openrouter_api_key, groq_api_key, openrouterResp, groqResp,
                   attempts>>
    /\ UNCHANGED pvars
    /\ UNCHANGED uvars

\* The Groq key is set and the module is imported: the client call is made.
SecondaryCall ==
    /\ llm_pc = "fallback"
    /\ groq_api_key # ""
    /\ groqResp # "import_error"
    /\ llm_pc' = "groq"
    /\ attempts' = Append(attempts, "groq")
    /\ UNCHANGED <<entry, openrouter_api_key, groq_api_key, openrouterResp, groqResp,
                   warnings, llm_result, gs_result>>
    /\ UNCHANGED pvars
    /\ UNCHANGED uvars

\* The Groq key is set but import groq raises inside the try block.
SecondaryImportFails ==
    /\ llm_pc = "fallback"
    /\ groq_api_key # ""
    /\ groqResp = "import_error"
    /\ EndCall(GroqResult(groqResp))
    /\ UNCHANGED <<entry, openrouter_api_key, groq_api_key, openrouterResp, groqResp,
                   attempts, warnings>>
    /\ UNCHANGED pvars
    /\ UNCHANGED uvars

\* The groq client call ends.
SecondaryReturn ==
    /\ llm_pc = "groq"
    /\ EndCall(GroqResult(groqResp))
    /\ UNCHANGED <<entry, openrouter_api_key, groq_api_key, openrouterResp, groqResp,
                   attempts, warnings>>
    /\ UNCHANGED pvars
    /\ UNCHANGED uvars

\* The Groq key is not set: the last line of call_llm raises.
NoProvider ==
    /\ llm_pc = "fallback"
    /\ groq_api_key = ""
    /\ EndCall(Raise(NoProviderMsg))
    /\ UNCHANGED <<entry, openrouter_api_key, groq_api_key, openrouterResp, groqResp,
                   attempts, warnings>>
    /\ UNCHANGED pvars
    /\ UNCHANGED uvars

NextLLM ==
    \/ SummaryUnavailable
    \/ PrimaryCall
    \/ PrimarySkip
    \/ PrimaryReturn
    \/ SecondaryCall
    \/ SecondaryImportFails
    \/ SecondaryReturn
    \/ NoProvider

SpecLLM == InitLLM /\ [][NextLLM]_vars


(* ------------------------ the page: buttons, session ------------------- *)
\* The content responses the page model draws from: the call raises, or the
\* body holds one page with text.
UiFetchResponses ==
    {r \in FetchResponses : r.kind = "raise" \/ r.pages = <<"text">>}

\* dr.get("data"): the results dict that deep_research returns on success.
Data == [query |-> topic, sources |-> sources, summary |-> content_summary, run |-> run]

\* Mutant of Stored: the assignment to the session slot is missing.
StoredNever(slot, out, data) == slot

\* The session slot after the handler has looked at what deep_research returned.
Stored(slot, out, data) == IF out.success THEN data ELSE slot

\* The script starts: the session slot is created empty, no button pressed yet.
InitUI ==
    /\ pc = "off"
    /\ max_urls = 1
    /\ time_limit = TimeLimit
    /\ now = 0
    /\ searchResp = [kind |-> "raise", n |-> 0]
    /\ responses = <<>>
    /\ search_results = <<>>
    /\ idx = 0
    /\ sources = <<>>
    /\ content_summary = <<>>
    /\ counter = 1
    /\ outcome = NoOutcome
    /\ calls = <<>>
    /\ inflight = 0
    /\ brokeAt = 0
    /\ llm_pc = "idle"
    /\ entry = "none"
    /\ openrouter_api_key = ""
    /\ groq_api_key = ""
    /\ openrouterResp = "none"
    /\ groqResp = "none"
    /\ attempts = <<>>
    /\ warnings = 0
    /\ llm_result = NoResult
    /\ gs_result = NoResult
    /\ ui_pc = "idle"
    /\ topic = ""
    /\ notice = "none"
    /\ run = 0
    /\ research_results = None

\* Clear is pressed: the slot is emptied and the script reruns.
PressClear ==
    /\ ui_pc = "idle"
    /\ research_results' = None
    /\ notice' = "cleared"
    /\ UNCHANGED <<ui_pc, topic, run>>
    /\ UNCHANGED pvars
    /\ UNCHANGED lvars

\* Start Research is pressed with an empty topic: an error is shown.
PressSearchNoTopic ==
    /\ ui_pc = "idle"
    /\ topic' = ""
    /\ notice' = "Please enter a research topic"
    /\ UNCHANGED <<ui_pc, run, research_results>>
    /\ UNCHANGED pvars
    /\ UNCHANGED lvars

\* Start Research is pressed with a topic: deep_research is called.
PressSearch ==
    /\ ui_pc = "idle"
    /\ run < MaxRuns
    /\ ui_pc' = "handler"
    /\ topic' = "topic"
    /\ notice' = "none"
    /\ run' = run + 1
    /\ pc' = "start"
    /\ max_urls' \in 1..MaxN
    /\ now' = 0
    /\ searchResp' \in SearchResponses
    /\ responses' \in [1..Min(searchResp'.n, max_urls') -> UiFetchResponses]
    /\ search_results' = <<>>
    /\ idx' = 0
    /\ sources' = <<>>
    /\ content_summary' = <<>>
    /\ counter' = 1
    /\ outcome' = NoOutcome
    /\ calls' = <<>>
    /\ inflight' = 0
    /\ brokeAt' = 0
    /\ UNCHANGED <<time_limit, research_results>>
    /\ UNCHANGED lvars

\* deep_research has returned: its data is stored in the slot and shown, or
\* its error is shown.
HandleResult ==
    /\ ui_pc = "handler"
    /\ pc = "done"
    /\ ui_pc' = "idle"
    /\ research_results' = Stored(research_results, outcome, Data)
    /\ notice' = IF outcome.success THEN "results" ELSE "Research failed"
    /\ UNCHANGED <<topic, run>>
    /\ UNCHANGED pvars
    /\ UNCHANGED lvars

NextUI ==
    \/ PressClear
    \/ PressSearchNoTopic
    \/ PressSearch
    \/ HandleResult
    \/ Next

SpecUI == InitUI /\ [][NextUI]_vars

(* ------------------------------ properties ----------------------------- *)
IsPrefix(s, t) == Len(s) <= Len(t) /\ SubSeq(t, 1, Len(s)) = s
IsStrictPrefix(s, t) == IsPrefix(s, t) /\ Len(s) < Len(t)

\* The content calls issued so far.
ContentCalls == SelectSeq(calls, LAMBDA c : c.call = "content")

\* The loop's range: search_results[:max_urls].
Reach == Len(Sliced(search_results, max_urls))

\* The search step yields no usable candidate.
NoCandidates == searchResp.kind \in {"raise", "noquery"} \/ searchResp.n = 0

\* C1: a run that returns success carries between 1 and max_urls sources,
\* and a run that accepted no source does not return success.
ThmC1 ==
    pc = "done" =>
        /\ outcome.success => (1 <= Len(sources) /\ Len(sources) <= max_urls)
        /\ sources = <<>> => ~outcome.success

\* C1 witness: a successful run that filled all max_urls places although the
\* search listed more results than that.
WitC1 ==
    /\ pc = "done"
    /\ outcome.success
    /\ Len(sources) = max_urls
    /\ Len(search_results) > max_urls

\* C2 as stated: when the deadline check broke the loop, the returned sources
\* are a strict prefix of the sources of the deadline-free run over the same
\* fetch outcomes.
CexC2 ==
    (pc = "done" /\ brokeAt # 0 /\ outcome.success) => IsStrictPrefix(sources, FreeRun)

\* C2 amended: when the deadline check broke the loop, the sources are a
\* prefix, in the same order, of the sources of the deadline-free run over the
\* same fetch outcomes; the prefix is strict exactly when the fetch of one of
\* the results that were not attempted would have yielded an extract.
ThmC2 ==
    (pc = "done" /\ brokeAt # 0) =>
        /\ IsPrefix(sources, FreeRun)
        /\ (sources # FreeRun) <=> (\E i \in brokeAt..Reach : Extracted(responses[i]))

\* C2 witness: the loop was broken after a source was accepted and the
\* deadline-free run would have accepted a further one.
WitC2 ==
    /\ pc = "done"
    /\ brokeAt # 0
    /\ outcome.success
    /\ Len(FreeRun) > Len(sources)

\* C3: when the search step yields no usable candidate the loop is never
\* entered, no content call is issued, and the run ends in a failure.
ThmC3 ==
    NoCandidates =>
        /\ pc \in {"start", "searching", "done"}
        /\ idx = 0
        /\ ContentCalls = <<>>
        /\ pc = "done" =>
             /\ ~outcome.success
             /\ outcome.error \in {"Research failed", "No search results found", "No results found"}
             /\ Len(calls) = 1

\* C3 witness: a run that ended on an empty result list.
WitC3 ==
    /\ pc = "done"
    /\ searchResp.kind = "results"
    /\ searchResp.n = 0
    /\ outcome.error = "No results found"

\* C4: when the search lists at least one result and every content fetch
\* that was made failed, the run ends in the failure "Could not retrieve any
\* content" with at most max_urls content calls and no source.
ThmC4 ==
    (/\ pc = "done"
     /\ ~NoCandidates
     /\ \A i \in 1..(idx - 1) : ~Extracted(responses[i])) =>
        /\ outcome = Failure("Could not retrieve any content")
        /\ Len(ContentCalls) <= max_urls
        /\ sources = <<>>

\* C4 witness: max_urls >= 2 content calls were made and each one failed.
WitC4 ==
    /\ pc = "done"
    /\ ~NoCandidates
    /\ max_urls >= 2
    /\ Len(ContentCalls) = max_urls
    /\ \A i \in 1..(idx - 1) : ~Extracted(responses[i])
    /\ outcome.error = "Could not retrieve any content"

\* C5: a content fetch that fails leaves the sources, the summary blocks, the
\* counter and the outcome as they were and hands control to the head of the
\* loop for the next result; hence, unless the deadline breaks the loop, every
\* result within reach whose fetch yields an extract is among the sources.
ThmC5 ==
    /\ [][(pc = "fetching" /\ ~Extracted(responses[search_results[idx]])) =>
            /\ sources' = sources
            /\ content_summary' = content_summary
            /\ counter' = counter
            /\ outcome' = outcome
            /\ pc' = "loop"
            /\ idx' = idx + 1]_vars
    /\ [](pc = "done" /\ ~NoCandidates /\ brokeAt = 0 =>
            \A i \in 1..Reach :
                Extracted(responses[i]) => \E k \in 1..Len(sources) : sources[k].title = i)

\* C5 witness: the first fetch raised and the second result was accepted.
WitC5 ==
    /\ pc = "done"
    /\ outcome.success
    /\ responses[1].kind = "raise"
    /\ sources[1].title = 2

\* C6: when the OpenRouter key is set and its call fails and the Groq key is
\* set and its call succeeds, call_llm returns Groq's content after exactly one
\* OpenRouter call followed by one Groq call; Groq is called only when the
\* OpenRouter key is not set or the OpenRouter call failed, and the providers
\* are called at most once each, OpenRouter first.
ThmC6 ==
    /\ (/\ llm_pc = "done"
        /\ openrouter_api_key # ""
        /\ openrouterResp # "ok"
        /\ groq_api_key # ""
        /\ groqResp = "ok") =>
            /\ llm_result = Return("groq content")
            /\ attempts = <<"openrouter", "groq">>
    /\ (\E k \in 1..Len(attempts) : attempts[k] = "groq") =>
            (openrouter_api_key = "" \/ openrouterResp # "ok")
    /\ attempts \in {<<>>, <<"openrouter">>, <<"groq">>, <<"openrouter", "groq">>}
    /\ (openrouter_api_key # "" /\ llm_pc # "entry") => (attempts # <<>> /\ attempts[1] = "openrouter")

\* C6 witness: the fallback happened and Groq's content was returned.
WitC6 ==
    /\ llm_pc = "done"
    /\ attempts = <<"openrouter", "groq">>
    /\ warnings = 1
    /\ llm_result = Return("groq content")

\* C7 as stated: the error that says no provider is available is raised
\* exactly when neither key is set, and then without any provider call; a
\* failed OpenRouter call with no Groq key set is reported differently.
CexC7 ==
    (llm_pc = "done" /\ llm_result.kind = "raise") =>
        /\ (llm_result.value = NoProviderMsg) <=> (openrouter_api_key = "" /\ groq_api_key = "")
        /\ (llm_result.value = NoProviderMsg) => attempts = <<>>

\* C8: generate_summary always ends by returning a value; with no key set
\* it returns the 'unavailable' text and no provider is called; an error
\* raised by call_llm comes back as the returned failure text.
ThmC8 ==
    (entry = "generate_summary" /\ llm_pc = "done") =>
        /\ gs_result.kind = "return"
        /\ (openrouter_api_key = "" /\ groq_api_key = "") =>
             (gs_result = Return(UnavailableMsg) /\ attempts = <<>> /\ llm_result = NoResult)
        /\ llm_result.kind = "raise" =>
             gs_result = Return(<<"Summary generation failed: ", llm_result.value>>)
        /\ llm_result.kind = "return" => gs_result = llm_result

\* C8 witness: both provider calls failed under generate_summary and the
\* failure text was returned.
WitC8 ==
    /\ entry = "generate_summary"
    /\ llm_pc = "done"
    /\ attempts = <<"openrouter", "groq">>
    /\ llm_result = Raise(GroqFailedMsg)
    /\ gs_result.kind = "return"

\* C9: a content call is in flight only if the clock had not passed the
\* deadline when it was issued; once the check finds the deadline passed no
\* further call is issued; and a call in flight ends by handing its extract,
\* if any, to the sources, whatever the clock reads by then.
ThmC9 ==
    /\ [](pc = "fetching" => now <= time_limit)
    /\ [][(pc = "loop" /\ now > time_limit) => (pc' = "done" /\ calls' = calls)]_vars
    /\ [][pc = "fetching" =>
            /\ pc' = "loop"
            /\ Extracted(responses[search_results[idx]]) =>
                 /\ Len(sources') = Len(sources) + 1
                 /\ sources'[Len(sources')].title = search_results[idx]]_vars

\* C9 witness: the deadline passed while a call was in flight and its
\* extract was accepted all the same.
WitC9 ==
    /\ pc = "loop"
    /\ now > time_limit
    /\ sources # <<>>
    /\ sources[Len(sources)].title = idx - 1

\* C10 as stated: each result contributes at most one source, the page kept
\* is the first one with a non-empty extract, and no source has an empty
\* snippet.
CexC10 ==
    /\ \A k, m \in 1..Len(sources) : sources[k].title = sources[m].title => k = m
    /\ \A k \in 1..Len(sources) :
         LET pages == responses[sources[k].title].pages
             j == sources[k].snippet.page
         IN  /\ ~sources[k].snippet.empty
             /\ pages[j] = "text"
             /\ \A h \in 1..(j - 1) : pages[h] # "text"

\* C11 as stated: once a run has finished, the slot never holds the result
\* of an earlier run.
CexC11 ==
    (ui_pc = "idle" /\ research_results # None) => research_results.run = run

\* C11 amended: a run that returns success overwrites the slot wholesale
\* with its own result; a run that returns a failure, or a press with an
\* empty topic, leaves the slot as it was, so that it may still hold the
\* result of an earlier successful run; Clear empties the slot.
ThmC11 ==
    /\ [](ui_pc = "idle" =>
            /\ notice = "results" => research_results = Data
            /\ notice = "cleared" => research_results = None
            /\ notice = "Research failed" => research_results.run < run
            /\ research_results # None =>
                 (research_results.run \in 1..run /\ research_results.sources # <<>>))
    /\ [][(ui_pc = "handler" /\ ui_pc' = "idle" /\ ~outcome.success) =>
            research_results' = research_results]_vars
    /\ [][notice' = "Please enter a research topic" =>
            research_results' = research_results]_vars

\* C11 witness: the second run has succeeded and the slot holds its result.
WitC11 ==
    /\ ui_pc = "idle"
    /\ notice = "results"
    /\ run = 2
    /\ research_results = Data
    /\ research_results.run = 2

\* C12: in one run the first call is the one search call and every later
\* call is a content call; no title is fetched twice and the titles are
\* fetched in search order; at most one call is in flight at any time; and
\* there are at most min(max_urls, number of results) content calls.
ThmC12 ==
    /\ inflight \in {0, 1}
    /\ inflight = 1 <=> pc \in {"searching", "fetching"}
    /\ pc = "start" => calls = <<>>
    /\ pc # "start" =>
         /\ calls # <<>>
         /\ calls[1].call = "search"
         /\ \A k \in 2..Len(calls) : calls[k].call = "content"
    /\ \A k \in 1..Len(ContentCalls) : ContentCalls[k].title = k
    /\ Len(ContentCalls) <= Min(max_urls, searchResp.n)

\* C12 witness: the search listed more results than max_urls, the first
\* content call raised, and the run ended after max_urls content calls.
WitC12 ==
    /\ pc = "done"
    /\ inflight = 0
    /\ searchResp.n > max_urls
    /\ responses[1].kind = "raise"
    /\ Len(ContentCalls) = max_urls
    /\ Len(calls) = max_urls + 1

\* The titles whose content call was made and whose response holds a page
\* with an "extract" key.
Yielding ==
    {i \in 1..(idx - 1) :
        /\ responses[i].kind = "pages"
        /\ \E j \in 1..Len(responses[i].pages) : responses[i].pages[j] # "noextract"}

\* The formatting of a sources list: one block per source, in order,
\* numbered 1..Len(srcs).
Render(srcs) ==
    [k \in 1..Len(srcs) |->
        [ordinal |-> k, title |-> srcs[k].title,
         snippet |-> srcs[k].snippet, url |-> srcs[k].url]]

\* C13: in a run that returns success the sources are, in search order,
\* exactly the results among the first max_urls that were fetched and whose
\* response held an extract, each with the extract of its first such page (so
\* with every fetch yielding one and no deadline break the titles are the
\* first max_urls results in order); and the summary is the formatting of
\* the sources: one block per source, in order, numbered 1..len(sources).
ThmC13 ==
    (pc = "done" /\ outcome.success) =>
        /\ idx - 1 <= Min(max_urls, Len(search_results))
        /\ Len(sources) = Cardinality(Yielding)
        /\ \A k \in 1..Len(sources) :
             LET i == sources[k].title
             IN  /\ i \in Yielding
                 /\ sources[k].url = Url(i)
                 /\ responses[i].pages[sources[k].snippet.page] # "noextract"
                 /\ \A h \in 1..(sources[k].snippet.page - 1) :
                      responses[i].pages[h] = "noextract"
                 /\ k < Len(sources) => i < sources[k + 1].title
        /\ (brokeAt = 0 /\ Yielding = 1..Reach) =>
             [k \in 1..Len(sources) |-> sources[k].title] = Sliced(search_results, max_urls)
        /\ content_summary = Render(sources)
        /\ counter = Len(sources) + 1

\* C13 witness: two sources were accepted and the summary holds their blocks
\* numbered 1 and 2.
WitC13 ==
    /\ pc = "done"
    /\ outcome.success
    /\ Len(sources) = 2
    /\ content_summary[1].ordinal = 1
    /\ content_summary[2].ordinal = 2
    /\ content_summary[2].title = sources[2].title

====
